---------------------------- MODULE Spec2Model ----------------------------
(***************************************************************************)
(* Balloon trajectory prediction: the three scripts from_env_sounding.py   *)
(* ("sounding"), from_rap.py ("rap") and from_flight_tracker.py            *)
(* ("tracker").                                                            *)
(*                                                                         *)
(* Units.  The scripts compute in floating point; the model computes in    *)
(* fixed point, every division rounding to the nearest unit:               *)
(*   lengths, altitudes, local x/y/z, delta_x/delta_y   millimetres        *)
(*   longitude, latitude                                micro-degrees      *)
(*   wind components, fall_rate                         mm/s               *)
(*   wind speed (sounding) mm/s, (rap) milli-knots                         *)
(*   pressure                                           0.01 mb            *)
(*   counter, time_to_cutdown, level times, ascent interval   seconds      *)
(*   track_t                                            milliseconds       *)
(* A result that numpy delivers as nan or +-inf (the mean of an empty      *)
(* selection, a division by zero) is the single value NaN.                 *)
(***************************************************************************)
EXTENDS Integers, Sequences, FiniteSets, TLC

VARIABLES
    prog,             \* which script runs: "sounding", "rap" or "tracker"
    gps_available,    \* "yes" or "no" (the sounding script's format block)
    sounding,         \* the profile table the script built
    ground,           \* the terrain table read from terrain.txt
    time_to_cutdown,  \* seconds
    tanp,             \* anchor of the tangent plane
    balloon_lon, balloon_lat, balloon_alt,
    interval, counter, landed,
    selection, sel1, sel2, delta_x, delta_y,
    track_lon, track_lat, track_alt, track_t,
    launch,           \* the starting location the script was given
    pc                \* "ascent", "descent", "done", "raised"; "query"/"answered"
                      \* in the specifications of the pure functions

vars == <<prog, gps_available, sounding, ground, time_to_cutdown, tanp,
          balloon_lon, balloon_lat, balloon_alt, interval, counter, landed,
          selection, sel1, sel2, delta_x, delta_y,
          track_lon, track_lat, track_alt, track_t, launch, pc>>

-----------------------------------------------------------------------------
(* Arithmetic *)

\* numpy's nan / inf
NaN == 0 - 2000000000

Abs(x) == IF x < 0 THEN 0 - x ELSE x

\* a / b rounded to the nearest integer, b # 0
RoundDiv(a, b) ==
    IF b > 0 THEN (2 * a + b) \div (2 * b)
             ELSE (2 * (0 - a) + (0 - b)) \div (2 * (0 - b))

\* numpy float division: a division by zero gives inf or nan, a warning, no exception
FDiv(a, b) == IF a = NaN \/ b = NaN \/ b = 0 THEN NaN ELSE RoundDiv(a, b)

FAdd(a, b) == IF a = NaN \/ b = NaN THEN NaN ELSE a + b

FMul(a, b) == IF a = NaN \/ b = NaN THEN NaN ELSE a * b

RECURSIVE SumOver(_, _)
SumOver(f, S) ==
    IF S = {} THEN 0
    ELSE LET i == CHOOSE j \in S : TRUE IN f[i] + SumOver(f, S \ {i})

\* pandas Series.mean() over the rows S of column f: nan when S is empty
Mean(f, S) == IF S = {} THEN NaN ELSE RoundDiv(SumOver(f, S), Cardinality(S))

Column(tbl, c) == [i \in DOMAIN tbl |-> tbl[i][c]]

Last(s) == s[Len(s)]


-----------------------------------------------------------------------------
(* Program constants *)

rise_rate == 6090              \* mm/s  (6.09 m/s)

AscentInterval(p) == IF p = "rap" THEN 30 ELSE 10      \* s

DescentInterval == 50000       \* mm  (50 m)

\* k of the k-nearest selection
KNearest(p) == IF p = "rap" THEN 2 ELSE 10

\* levels taken on each side when bracketing
KBracket(p) == IF p = "tracker" THEN 1 ELSE 10

GapThreshold == 100000         \* mm  (100 m)

SecondsPerDay == 86400

\* fall_function(pressure) = -917.02/(pressure+11) - 5.167, in mm/s, pressure in 0.01 mb
fall_function(pressure) ==
    LET q == FDiv(0 - 91702000, pressure + 1100)
    IN  IF q = NaN THEN NaN ELSE q - 5167

Neg(x) == IF x = NaN THEN NaN ELSE 0 - x

\* sin and cos of a wind direction in degrees (multiples of 90 only)
SinDeg(d) == CASE d = 0 -> 0 [] d = 90 -> 1 [] d = 180 -> 0 [] d = 270 -> 0 - 1

CosDeg(d) == CASE d = 0 -> 1 [] d = 90 -> 0 [] d = 180 -> 0 - 1 [] d = 270 -> 0

-----------------------------------------------------------------------------
(* Geodetic transform service (coordinateSystems): geographic -> ECEF ->   *)
(* local tangent plane and back, as a local flat-earth frame at the anchor *)

MmPerMicroDegLat == 111

MmPerMicroDegLon == 80

\* tanp.toLocal(geo.toECEF(lon, lat, alt))
GeoToLocal(anchor, lon, lat, alt) ==
    IF lon = NaN \/ lat = NaN \/ alt = NaN
    THEN [x |-> NaN, y |-> NaN, z |-> NaN]
    ELSE [x |-> (lon - anchor.lon) * MmPerMicroDegLon,
          y |-> (lat - anchor.lat) * MmPerMicroDegLat,
          z |-> alt - anchor.alt]

\* geo.fromECEF(tanp.fromLocal(x, y, z)): a non-finite component spoils all three
LocalToGeo(anchor, x, y, z) ==
    IF x = NaN \/ y = NaN \/ z = NaN
    THEN [lon |-> NaN, lat |-> NaN, alt |-> NaN]
    ELSE [lon |-> anchor.lon + RoundDiv(x, MmPerMicroDegLon),
          lat |-> anchor.lat + RoundDiv(y, MmPerMicroDegLat),
          alt |-> anchor.alt + z]

-----------------------------------------------------------------------------
(* Building the profile table *)

\* np.argmax: the first row holding the maximum (rows numbered from 1 here)
ArgMax(f) ==
    CHOOSE i \in DOMAIN f :
        /\ \A j \in DOMAIN f : f[j] <= f[i]
        /\ \A j \in DOMAIN f : f[j] = f[i] => i <= j

\* from_env_sounding.py: u, v from direction and speed, fall rate from pressure,
\* then only the rows before the highest one are kept.  Without GPS columns every
\* level is given the launch position.
BuildSounding(raw, gps, lon0, lat0) ==
    LET row(i) == [alt       |-> raw[i].alt,
                   u         |-> (0 - SinDeg(raw[i].wdir)) * raw[i].wspd,
                   v         |-> (0 - CosDeg(raw[i].wdir)) * raw[i].wspd,
                   fall_rate |-> Neg(fall_function(raw[i].pres)),
                   lat       |-> IF gps = "yes" THEN raw[i].lat ELSE lat0,
                   lon       |-> IF gps = "yes" THEN raw[i].lon ELSE lon0,
                   Time      |-> raw[i].Time]
        n == IF raw = <<>> THEN 0 ELSE ArgMax(Column(raw, "alt")) - 1
    IN  [i \in 1..n |-> row(i)]

\* from_rap.py: pressure in tenths of a millibar, wind speed in knots
BuildRap(raw) ==
    [i \in DOMAIN raw |->
        [alt       |-> raw[i].alt,
         u         |-> RoundDiv((0 - SinDeg(raw[i].wdir)) * raw[i].wspd * 10000, 19484),
         v         |-> RoundDiv((0 - CosDeg(raw[i].wdir)) * raw[i].wspd * 10000, 19484),
         fall_rate |-> Neg(fall_function(raw[i].pres * 10)),
         lat       |-> 0,
         lon       |-> 0,
         Time      |-> 0]]

\* from_flight_tracker.py: positions, times and pressures of the tracked path
BuildTracker(raw) ==
    [i \in DOMAIN raw |->
        [alt       |-> raw[i].alt,
         u         |-> 0,
         v         |-> 0,
         fall_rate |-> Neg(fall_function(raw[i].pres)),
         lat       |-> raw[i].lat,
         lon       |-> raw[i].lon,
         Time      |-> raw[i].Time]]

\* ground['lon'] = ground['lon'] - 360  (terrain.txt gives degrees east)
BuildGround(raw) ==
    [i \in DOMAIN raw |->
        [lon |-> raw[i].lon - 360000000, lat |-> raw[i].lat, alt |-> raw[i].alt]]

-----------------------------------------------------------------------------
(* Level sampler *)

\* (sounding.alt - balloon_alt)
AltDiff(tbl, a) == [i \in DOMAIN tbl |-> tbl[i].alt - a]

\* nsmallest with equal values taken in reverse input order (keep='last')
NSmallestKeepLast(d, S, k) ==
    {i \in S : Cardinality({j \in S : d[j] < d[i] \/ (d[j] = d[i] /\ j > i)}) < k}

\* Series.nsmallest(k) over the rows S: the k smallest values, equal values in
\* input order (keep='first')
NSmallest(d, S, k) ==
    {i \in S : Cardinality({j \in S : d[j] < d[i] \/ (d[j] = d[i] /\ j < i)}) < k}

\* Series.nlargest(k)
NLargest(d, S, k) ==
    {i \in S : Cardinality({j \in S : d[j] > d[i] \/ (d[j] = d[i] /\ j < i)}) < k}

\* (sounding.alt - balloon_alt).abs().nsmallest(k).index ; nsmallest drops nan
Nearest(tbl, a, k) ==
    IF a = NaN THEN {}
    ELSE LET d == AltDiff(tbl, a)
         IN  NSmallest([i \in DOMAIN tbl |-> Abs(d[i])], DOMAIN tbl, k)

\* rows strictly below the balloon, nearest first
Below(tbl, a, k) ==
    IF a = NaN THEN {}
    ELSE LET d == AltDiff(tbl, a)
         IN  NLargest(d, {i \in DOMAIN tbl : d[i] < 0}, k)

\* rows strictly above the balloon (sounding script)
Above(tbl, a, k) ==
    IF a = NaN THEN {}
    ELSE LET d == AltDiff(tbl, a)
         IN  NSmallest(d, {i \in DOMAIN tbl : d[i] > 0}, k)

\* rows at or above the balloon (tracker script)
AtOrAbove(tbl, a, k) ==
    IF a = NaN THEN {}
    ELSE LET d == AltDiff(tbl, a)
         IN  NSmallest(d, {i \in DOMAIN tbl : d[i] >= 0}, k)

\* np.abs(sounding.alt - balloon_alt).min() > 100 ; False for nan
GapExceeds(tbl, a) ==
    /\ a # NaN
    /\ DOMAIN tbl # {}
    /\ \A i \in DOMAIN tbl : Abs(tbl[i].alt - a) > GapThreshold

\* gap_local[1] - gap_local[0] for the mean positions of the rows s1 and s2
Movement(tbl, anchor, s1, s2) ==
    LET g1 == GeoToLocal(anchor, Mean(Column(tbl, "lon"), s1),
                         Mean(Column(tbl, "lat"), s1), Mean(Column(tbl, "alt"), s1))
        g2 == GeoToLocal(anchor, Mean(Column(tbl, "lon"), s2),
                         Mean(Column(tbl, "lat"), s2), Mean(Column(tbl, "alt"), s2))
    IN  [x |-> IF g1.x = NaN \/ g2.x = NaN THEN NaN ELSE g2.x - g1.x,
         y |-> IF g1.y = NaN \/ g2.y = NaN THEN NaN ELSE g2.y - g1.y]

\* t2 - t1 of the sounding script: a difference of numbers
TimeGap(tbl, s1, s2) ==
    LET t1 == Mean(Column(tbl, "Time"), s1)
        t2 == Mean(Column(tbl, "Time"), s2)
    IN  IF t1 = NaN \/ t2 = NaN THEN NaN ELSE t2 - t1

\* (t2 - t1).seconds of the tracker script: the seconds field of a timedelta,
\* which lies in 0..86399 whatever the sign or the number of days
TimeGapSeconds(tbl, s1, s2) ==
    LET g == TimeGap(tbl, s1, s2)
    IN  IF g = NaN THEN NaN ELSE g % SecondsPerDay

-----------------------------------------------------------------------------
(* Terrain grid query *)

\* an idxmin that returns the last row holding the minimum
IdxMinLast(f) ==
    CHOOSE i \in DOMAIN f :
        /\ \A j \in DOMAIN f : f[i] <= f[j]
        /\ \A j \in DOMAIN f : f[j] = f[i] => j <= i

\* Series.idxmin(): the first row holding the minimum
IdxMin(f) ==
    CHOOSE i \in DOMAIN f :
        /\ \A j \in DOMAIN f : f[i] <= f[j]
        /\ \A j \in DOMAIN f : f[j] = f[i] => i <= j

\* the rows of the terrain table that carry the nearest latitude value and the
\* nearest longitude value
TerrainRows(g, lon, lat) ==
    LET ilat == IdxMin([i \in DOMAIN g |-> Abs(g[i].lat - lat)])
        ilon == IdxMin([i \in DOMAIN g |-> Abs(g[i].lon - lon)])
    IN  {i \in DOMAIN g : g[i].lat = g[ilat].lat /\ g[i].lon = g[ilon].lon}

FirstOf(S) == CHOOSE i \in S : \A j \in S : i <= j

\* a landed test that also counts an elevation equal to the altitude
ExceedsOrEquals(elevation, alt) == elevation >= alt

\* a landed test that holds at one altitude only
EqualsOnly(elevation, alt) == elevation = alt

\* the comparison of the landed test
Exceeds(elevation, alt) == elevation > alt

\* landed = (ground.alt[...] > balloon_alt).values[0] : "True", "False", or
\* "IndexError" when no row carries both values
is_landed(g, lon, lat, alt) ==
    LET rows == TerrainRows(g, lon, lat)
    IN  IF rows = {} THEN "IndexError"
        ELSE IF Exceeds(g[FirstOf(rows)].alt, alt) THEN "True" ELSE "False"

-----------------------------------------------------------------------------
(* One step of the integrators *)

\* interval / fall_rate of a descent step, in milliseconds
StepTime(itv, fbar) == FDiv(FMul(itv, 1000), fbar)

\* (interval / fall_rate) * wind, in millimetres
Advect(itv, fbar, wind) == FDiv(FMul(StepTime(itv, fbar), wind), 1000)

\* The gap-bridging block of the sounding script (the same in ascent and descent):
\* taken when the nearest level is more than 100 m away and GPS is available;
\* sel1, sel2, delta_x, delta_y keep their values where the code does not assign them
GapBridge(tbl, gps, anchor, a, s1, s2, dx, dy) ==
    IF gps = "yes" /\ GapExceeds(tbl, a)
    THEN LET n1 == Below(tbl, a, KBracket("sounding"))
             n2 == Above(tbl, a, KBracket("sounding"))
             mv == Movement(tbl, anchor, n1, n2)
             tg == TimeGap(tbl, n1, n2)
         IN  IF n1 # {} /\ n2 # {}
             THEN [sel1 |-> n1, sel2 |-> n2,
                   delta_x |-> FDiv(mv.x, tg), delta_y |-> FDiv(mv.y, tg)]
             ELSE [sel1 |-> n1, sel2 |-> n2, delta_x |-> dx, delta_y |-> dy]
    ELSE [sel1 |-> s1, sel2 |-> s2, delta_x |-> dx, delta_y |-> dy]

\* the sampling part of an ascent step
AscentSample(p, tbl, gps, anchor, a, itv, s1, s2) ==
    LET sel == Nearest(tbl, a, KNearest(p))
        dx  == FMul(itv, Mean(Column(tbl, "u"), sel))
        dy  == FMul(itv, Mean(Column(tbl, "v"), sel))
        gb  == IF p = "sounding" THEN GapBridge(tbl, gps, anchor, a, s1, s2, dx, dy)
               ELSE [sel1 |-> s1, sel2 |-> s2, delta_x |-> dx, delta_y |-> dy]
    IN  [selection |-> sel, sel1 |-> gb.sel1, sel2 |-> gb.sel2,
         delta_x |-> gb.delta_x, delta_y |-> gb.delta_y]

\* the sampling part of a descent step of the sounding and rap scripts
DescentSample(p, tbl, gps, anchor, a, itv, s1, s2) ==
    LET sel  == Nearest(tbl, a, KNearest(p))
        fbar == Mean(Column(tbl, "fall_rate"), sel)
        dx   == Advect(itv, fbar, Mean(Column(tbl, "u"), sel))
        dy   == Advect(itv, fbar, Mean(Column(tbl, "v"), sel))
        gb   == IF p = "sounding" THEN GapBridge(tbl, gps, anchor, a, s1, s2, dx, dy)
                ELSE [sel1 |-> s1, sel2 |-> s2, delta_x |-> dx, delta_y |-> dy]
    IN  [selection |-> sel, sel1 |-> gb.sel1, sel2 |-> gb.sel2,
         delta_x |-> gb.delta_x, delta_y |-> gb.delta_y,
         dt |-> StepTime(itv, fbar)]

\* the sampling part of a descent step of the tracker script: always bracketing
TrackerSample(tbl, anchor, a, itv, sel) ==
    LET n1   == Below(tbl, a, KBracket("tracker"))
        n2   == AtOrAbove(tbl, a, KBracket("tracker"))
        fbar == Mean(Column(tbl, "fall_rate"), n1)
        mv   == Movement(tbl, anchor, n1, n2)
        secs == TimeGapSeconds(tbl, n1, n2)
    IN  [selection |-> sel, sel1 |-> n1, sel2 |-> n2,
         delta_x |-> FDiv(FMul(StepTime(itv, fbar), mv.x), FMul(1000, secs)),
         delta_y |-> FDiv(FMul(StepTime(itv, fbar), mv.y), FMul(1000, secs)),
         dt |-> StepTime(itv, fbar)]

\* the balloon moved by (dx, dy, dz) in the tangent plane
Moved(anchor, lon, lat, alt, dx, dy, dz) ==
    LET b == GeoToLocal(anchor, lon, lat, alt)
    IN  LocalToGeo(anchor, FAdd(b.x, dx), FAdd(b.y, dy), FAdd(b.z, dz))

\* ascent steps taken so far (counter advances by the ascent interval each step)
AscentSteps == counter \div AscentInterval(prog)

DescentSteps == Len(track_alt) - AscentSteps

-----------------------------------------------------------------------------
(* Inputs *)

MaxLevels == 2          \* rows of an input profile (below the top of a sounding)

MaxDescentSteps == 13   \* descent steps followed once the state is not finite

Lon0 == 0 - 76000000    \* -76.0 degrees

Lat0 == 43700000        \* 43.7 degrees

\* pressures (0.01 mb) and the fall rates they give:
\* 17874 -> 10000 mm/s, 98900 -> 6084 mm/s, -8900 -> -6590 mm/s, -18848 -> 0
Row(alt, pres, wspd, lon, t) ==
    [alt |-> alt, pres |-> pres, wdir |-> 270, wspd |-> wspd,
     lat |-> Lat0, lon |-> lon, Time |-> t]

\* the highest reading of a sounding file (the rows from it on are dropped)
TopRow == Row(550000, 0 - 18848, 0, Lon0, 200)

Rows ==
    { Row(50000,  17874,  0,    Lon0,        0),
      Row(400000, 17874,  0,    Lon0,        100),
      Row(400000, 98900,  3000, Lon0 + 1000, 0),
      Row(50000,  0 - 8900,  0, Lon0,        86500),
      Row(50000,  17874,  0,    Lon0 - 1000, 150),
      TopRow }

\* the rap file gives pressure in tenths of a millibar and speed in (milli)knots
RapRow(r) == [r EXCEPT !.pres = RoundDiv(r.pres, 10), !.wspd = 2 * r.wspd]

Profiles(least) == UNION {[1..n -> Rows] : n \in least..MaxLevels}

\* the input file of a script
RawProfiles(p) ==
    CASE p = "sounding" -> {Append(r, TopRow) : r \in Profiles(0)}
      [] p = "rap"      -> {[i \in DOMAIN r |-> RapRow(r[i])] : r \in Profiles(1)}
      [] p = "tracker"  -> Profiles(1)

Cutdowns == {0 - 10, 0, 20, 60}

LaunchAlts == {17300}

GroundPoint(dlon, dlat, alt) ==
    [lon |-> Lon0 + 360000000 + dlon, lat |-> Lat0 + dlat, alt |-> alt]

\* two flat grids and an irregular one (terrain.txt, longitudes in degrees east)
Grounds ==
    { <<GroundPoint(0, 0, 0), GroundPoint(10000, 0, 0)>>,
      <<GroundPoint(0, 0, 100000), GroundPoint(10000, 0, 100000)>>,
      <<GroundPoint(0, 5000, 0), GroundPoint(5000, 0, 0)>> }

-----------------------------------------------------------------------------
(* The scripts *)

\* the state before the first loop of the sounding and rap scripts
InitFlight(p, gps, raw, graw, alt0, T) ==
    /\ prog = p
    /\ gps_available = gps
    /\ sounding = IF p = "sounding" THEN BuildSounding(raw, gps, Lon0, Lat0)
                  ELSE BuildRap(raw)
    /\ ground = BuildGround(graw)
    /\ time_to_cutdown = T
    /\ launch = [lon |-> Lon0, lat |-> Lat0, alt |-> alt0]
    /\ tanp = [lon |-> Lon0, lat |-> Lat0, alt |-> 0]
    /\ balloon_lon = Lon0 /\ balloon_lat = Lat0 /\ balloon_alt = alt0
    /\ interval = AscentInterval(p)
    /\ counter = 0
    /\ landed = "False"
    /\ selection = {} /\ sel1 = {} /\ sel2 = {}
    /\ delta_x = 0 /\ delta_y = 0
    /\ track_lon = <<>> /\ track_lat = <<>> /\ track_alt = <<>> /\ track_t = <<>>
    /\ pc = "ascent"

\* the state before the loop of the tracker script: the descent starts at the
\* last tracked position, track_t = [0]
InitTracker(raw, graw) ==
    LET tbl == BuildTracker(raw)
        end == tbl[Len(tbl)]
    IN  /\ prog = "tracker"
        /\ gps_available = "yes"
        /\ sounding = tbl
        /\ ground = BuildGround(graw)
        /\ time_to_cutdown = 0
        /\ launch = [lon |-> end.lon, lat |-> end.lat, alt |-> end.alt]
        /\ tanp = [lon |-> end.lon, lat |-> end.lat, alt |-> 0]
        /\ balloon_lon = end.lon /\ balloon_lat = end.lat /\ balloon_alt = end.alt
        /\ interval = DescentInterval
        /\ counter = 0
        /\ landed = "False"
        /\ selection = {} /\ sel1 = {} /\ sel2 = {}
        /\ delta_x = 0 /\ delta_y = 0
        /\ track_lon = <<>> /\ track_lat = <<>> /\ track_alt = <<>> /\ track_t = <<0>>
        /\ pc = "descent"

Init ==
    \/ \E p \in {"sounding", "rap"}, gps \in {"yes", "no"}, graw \in Grounds,
          alt0 \in LaunchAlts, T \in Cutdowns :
          /\ p = "rap" => gps = "no"
          /\ \E raw \in RawProfiles(p) : InitFlight(p, gps, raw, graw, alt0, T)
    \/ \E raw \in RawProfiles("tracker"), graw \in Grounds : InitTracker(raw, graw)

inputs == <<prog, gps_available, sounding, ground, time_to_cutdown, tanp, launch>>

\* one pass of "while counter<=time_to_cutdown"
AscentStep ==
    /\ pc = "ascent"
    /\ counter <= time_to_cutdown
    /\ LET s == AscentSample(prog, sounding, gps_available, tanp, balloon_alt,
                             interval, sel1, sel2)
           b == Moved(tanp, balloon_lon, balloon_lat, balloon_alt,
                      s.delta_x, s.delta_y, interval * rise_rate)
       IN  /\ selection' = s.selection
           /\ sel1' = s.sel1 /\ sel2' = s.sel2
           /\ delta_x' = s.delta_x /\ delta_y' = s.delta_y
           /\ balloon_lon' = b.lon /\ balloon_lat' = b.lat /\ balloon_alt' = b.alt
           /\ track_lon' = Append(track_lon, b.lon)
           /\ track_lat' = Append(track_lat, b.lat)
           /\ track_alt' = Append(track_alt, b.alt)
           /\ track_t' = Append(track_t, counter * 1000)
    /\ counter' = counter + interval
    /\ UNCHANGED <<inputs, interval, landed, pc>>

\* the ascent loop ends; interval = 50, landed = False
AscentEnd ==
    /\ pc = "ascent"
    /\ counter > time_to_cutdown
    /\ interval' = DescentInterval
    /\ landed' = "False"
    /\ pc' = "descent"
    /\ UNCHANGED <<inputs, counter, selection, sel1, sel2, delta_x, delta_y,
                   balloon_lon, balloon_lat, balloon_alt,
                   track_lon, track_lat, track_alt, track_t>>

\* a landed test applied to the altitude the step started from
LandedTestBeforeStep(lon, lat, alt) ==
    IF lon = NaN \/ lat = NaN \/ alt = NaN
    THEN {"False", "KeyError"}
    ELSE {is_landed(ground, lon, lat, alt + DescentInterval)}

\* The landed test on the new state.  With a position that is not finite the
\* nearest-row lookup either raises or compares False.
LandedTest(lon, lat, alt) ==
    IF lon = NaN \/ lat = NaN \/ alt = NaN
    THEN {"False", "KeyError"}
    ELSE {is_landed(ground, lon, lat, alt)}

\* What the sampling of a descent step can do.  The tracker script subtracts the
\* two mean times: with no row on one side a mean is nan, and the subtraction
\* either raises (a datetime minus a float) or gives nan.
SampleOutcomes(p, s) ==
    IF p = "tracker" /\ (s.sel1 = {} \/ s.sel2 = {}) THEN {"TypeError", "nan"}
    ELSE {"value"}

\* One pass of "while ~landed".  The pass raises at track_t[-1] when the ascent
\* recorded nothing, after the position lists were appended to.
DescentStep ==
    /\ pc = "descent"
    /\ balloon_alt # NaN \/ DescentSteps < MaxDescentSteps
    /\ LET s == IF prog = "tracker"
                THEN TrackerSample(sounding, tanp, balloon_alt, interval, selection)
                ELSE DescentSample(prog, sounding, gps_available, tanp, balloon_alt,
                                   interval, sel1, sel2)
           b == Moved(tanp, balloon_lon, balloon_lat, balloon_alt,
                      s.delta_x, s.delta_y, 0 - interval)
       IN  \E o \in SampleOutcomes(prog, s) :
             /\ selection' = s.selection
             /\ sel1' = s.sel1 /\ sel2' = s.sel2
             /\ IF o = "TypeError"
                THEN /\ pc' = "raised"
                     /\ UNCHANGED <<delta_x, delta_y, landed,
                                    balloon_lon, balloon_lat, balloon_alt,
                                    track_lon, track_lat, track_alt, track_t>>
                ELSE /\ delta_x' = s.delta_x /\ delta_y' = s.delta_y
                     /\ balloon_lon' = b.lon /\ balloon_lat' = b.lat
                     /\ balloon_alt' = b.alt
                     /\ track_lon' = Append(track_lon, b.lon)
                     /\ track_lat' = Append(track_lat, b.lat)
                     /\ track_alt' = Append(track_alt, b.alt)
                     /\ IF track_t = <<>>
                        THEN /\ track_t' = track_t
                             /\ landed' = landed
                             /\ pc' = "raised"
                        ELSE /\ track_t' = Append(track_t, FAdd(Last(track_t), s.dt))
                             /\ \E r \in LandedTest(b.lon, b.lat, b.alt) :
                                   /\ landed' = IF r = "True" THEN "True" ELSE landed
                                   /\ pc' = CASE r = "True"  -> "done"
                                              [] r = "False" -> "descent"
                                              [] OTHER       -> "raised"
    /\ UNCHANGED <<inputs, interval, counter>>

Next == AscentStep \/ AscentEnd \/ DescentStep

Spec == Init /\ [][Next]_vars

-----------------------------------------------------------------------------
(* The terrain query on its own: a grid and a position are drawn, the landed   *)
(* test is applied, and applied again at lower altitudes of the same position. *)
(* track_alt lists the altitudes asked about.                                  *)

MaxGround == 3          \* rows of a terrain grid

QueryPoints ==
    {GroundPoint(dlon, dlat, alt) :
        dlon \in {0, 10000}, dlat \in {0, 10000}, alt \in {0, 100000}}

QueryGrounds == UNION {[1..n -> QueryPoints] : n \in 1..MaxGround}

QueryLons == {Lon0 + 3000, Lon0 + 5000}

QueryLats == {Lat0 + 8000}

QueryAlts == {0 - 50000, 0, 100000, 150000}

\* the variables the pure functions do not read
Idle ==
    /\ gps_available = "no"
    /\ time_to_cutdown = 0
    /\ launch = [lon |-> Lon0, lat |-> Lat0, alt |-> 0]
    /\ tanp = [lon |-> Lon0, lat |-> Lat0, alt |-> 0]
    /\ interval = DescentInterval
    /\ counter = 0
    /\ sel1 = {} /\ sel2 = {}
    /\ delta_x = 0 /\ delta_y = 0
    /\ track_lon = <<>> /\ track_lat = <<>> /\ track_t = <<>>

InitLanded ==
    /\ Idle
    /\ prog = "sounding"
    /\ sounding = <<>>
    /\ selection = {}
    /\ landed = "False"
    /\ track_alt = <<>>
    /\ pc = "query"
    /\ \E graw \in QueryGrounds, lon \in QueryLons, lat \in QueryLats, alt \in QueryAlts :
          /\ ground = BuildGround(graw)
          /\ balloon_lon = lon /\ balloon_lat = lat /\ balloon_alt = alt

LandedQuery ==
    /\ pc = "query"
    /\ landed' = is_landed(ground, balloon_lon, balloon_lat, balloon_alt)
    /\ track_alt' = Append(track_alt, balloon_alt)
    /\ pc' = "answered"
    /\ UNCHANGED <<inputs, balloon_lon, balloon_lat, balloon_alt, interval, counter,
                   selection, sel1, sel2, delta_x, delta_y,
                   track_lon, track_lat, track_t>>

LandedLower ==
    /\ pc = "answered"
    /\ \E alt \in QueryAlts :
          /\ alt < balloon_alt
          /\ balloon_alt' = alt
          /\ landed' = is_landed(ground, balloon_lon, balloon_lat, alt)
          /\ track_alt' = Append(track_alt, alt)
    /\ UNCHANGED <<inputs, balloon_lon, balloon_lat, interval, counter,
                   selection, sel1, sel2, delta_x, delta_y,
                   track_lon, track_lat, track_t, pc>>

NextLanded == LandedQuery \/ LandedLower

SpecLanded == InitLanded /\ [][NextLanded]_vars

-----------------------------------------------------------------------------
(* The k-nearest selection on its own: a profile table and a target altitude *)
(* are drawn and the selection of the sounding or the rap script is applied. *)

MaxSampleLevels == 11   \* rows of a profile table

SampleAlts == {50000, 400000}

SampleLevel(alt) ==
    [alt |-> alt, u |-> 0, v |-> 0, fall_rate |-> 10000,
     lat |-> Lat0, lon |-> Lon0, Time |-> 0]

SampleTables ==
    UNION {[1..n -> {SampleLevel(a) : a \in SampleAlts}] : n \in 1..MaxSampleLevels}

InitSample ==
    /\ Idle
    /\ ground = <<>>
    /\ balloon_lon = Lon0 /\ balloon_lat = Lat0
    /\ selection = {}
    /\ landed = "False"
    /\ track_alt = <<>>
    /\ pc = "query"
    /\ \E p \in {"sounding", "rap"}, tbl \in SampleTables, alt \in SampleAlts :
          /\ prog = p
          /\ sounding = tbl
          /\ balloon_alt = alt

SampleQuery ==
    /\ pc = "query"
    /\ selection' = Nearest(sounding, balloon_alt, KNearest(prog))
    /\ pc' = "answered"
    /\ UNCHANGED <<inputs, balloon_lon, balloon_lat, balloon_alt, interval, counter,
                   landed, sel1, sel2, delta_x, delta_y,
                   track_lon, track_lat, track_alt, track_t>>

NextSample == SampleQuery

SpecSample == InitSample /\ [][NextSample]_vars

-----------------------------------------------------------------------------
(* Preconditions the claims speak of *)

\* no horizontal motion anywhere in the profile: zero wind at every level, and
\* every level at the launch position (the position is what bracketing reads)
ZeroWind ==
    \A i \in DOMAIN sounding :
        /\ sounding[i].u = 0 /\ sounding[i].v = 0
        /\ sounding[i].lon = tanp.lon /\ sounding[i].lat = tanp.lat

\* the same fall rate f > 0 at every level of a non-empty profile
ConstantFall(f) ==
    /\ f > 0
    /\ sounding # <<>>
    /\ \A i \in DOMAIN sounding : sounding[i].fall_rate = f

FallOfProfile == sounding[1].fall_rate

\* flat terrain at elevation G
FlatTerrain(G) == ground # <<>> /\ \A i \in DOMAIN ground : ground[i].alt = G

\* the altitude and the recorded time at which the descent starts
DescentStartAlt == IF AscentSteps = 0 THEN launch.alt ELSE track_alt[AscentSteps]

DescentStartTime == IF prog = "tracker" THEN track_t[1] ELSE track_t[AscentSteps]

AscentOver == pc = "descent" /\ DescentSteps = 0 /\ prog # "tracker"

-----------------------------------------------------------------------------
(* C1 *)

\* C1: with zero wind at every level and an ascent step that divides
\* time_to_cutdown > 0, when the ascent loop ends the balloon is at
\* start altitude + rise_rate * time_to_cutdown, over the launch point, and the
\* last recorded elapsed time is time_to_cutdown.
C1_AscentEndsAtCutdownAltitude ==
    (/\ AscentOver
     /\ ZeroWind /\ sounding # <<>>
     /\ time_to_cutdown > 0
     /\ time_to_cutdown % AscentInterval(prog) = 0)
    => /\ balloon_alt = launch.alt + rise_rate * time_to_cutdown
       /\ balloon_lon = launch.lon
       /\ balloon_lat = launch.lat
       /\ track_t # <<>>
       /\ Last(track_t) = time_to_cutdown * 1000

-----------------------------------------------------------------------------
(* C2 *)

C2_Case(G, f) ==
    /\ pc = "done"
    /\ ZeroWind
    /\ ConstantFall(f)
    /\ FlatTerrain(G)
    /\ DescentStartAlt > G
    /\ (DescentStartAlt - G) % interval = 0

-----------------------------------------------------------------------------
(* C3 *)

\* C3: with time_to_cutdown <= 0 the ascent loop takes no step and records
\* nothing, and the descent runs from the launch state without raising at its
\* first step.
C3_NoAscentWithoutCutdownTime ==
    (prog # "tracker" /\ time_to_cutdown <= 0)
    => /\ counter = 0
       /\ AscentOver => /\ track_alt = <<>>
                        /\ balloon_alt = launch.alt
                        /\ balloon_lon = launch.lon
                        /\ balloon_lat = launch.lat
       /\ ~(pc = "raised" /\ track_t = <<>>)

-----------------------------------------------------------------------------
(* C4 *)

\* the configured limit of descent steps (simulate()'s config.max_descent_steps);
\* every descent of this model that lands does so within it
max_descent_steps == 12

\* C4: no run takes more than max_descent_steps descent steps: it has landed by
\* then or has stopped with a NonTermination failure.
C4_DescentStepsBounded == DescentSteps <= max_descent_steps

-----------------------------------------------------------------------------
(* C5 *)

\* the longitude value and the latitude value nearest to the balloon (of two
\* values at the same distance, the one listed first)
NearestLonValue ==
    ground[FirstOf({i \in DOMAIN ground :
        \A j \in DOMAIN ground :
            Abs(ground[i].lon - balloon_lon) <= Abs(ground[j].lon - balloon_lon)})].lon

NearestLatValue ==
    ground[FirstOf({i \in DOMAIN ground :
        \A j \in DOMAIN ground :
            Abs(ground[i].lat - balloon_lat) <= Abs(ground[j].lat - balloon_lat)})].lat

SamplesWithBoth ==
    {i \in DOMAIN ground :
        ground[i].lon = NearestLonValue /\ ground[i].lat = NearestLatValue}

\* C5 as stated: for every non-empty grid and every query, is_landed answers
\* True or False, and True exactly when the elevation of the sample that carries
\* the nearest longitude value and the nearest latitude value is above alt.
C5_LandedIsBooleanOnEveryGrid ==
    pc = "answered"
    => /\ landed \in {"True", "False"}
       /\ SamplesWithBoth # {}
       /\ landed = "True" <=> ground[FirstOf(SamplesWithBoth)].alt > balloon_alt

\* C5 amended: on a grid where some sample carries both nearest values,
\* is_landed answers True or False, and True exactly when the elevation of the
\* first such sample is strictly above alt; on a grid where none does it
\* raises IndexError.
C5_LandedWhereBothValuesMeet ==
    pc = "answered"
    => IF SamplesWithBoth = {}
       THEN landed = "IndexError"
       ELSE /\ landed \in {"True", "False"}
            /\ landed = "True" <=> ground[FirstOf(SamplesWithBoth)].alt > balloon_alt

\* a query at an altitude equal to the elevation found, on a grid of several samples
C5_Witness ==
    /\ pc = "answered"
    /\ Len(ground) > 1
    /\ SamplesWithBoth # {}
    /\ ground[FirstOf(SamplesWithBoth)].alt = balloon_alt
    /\ landed = "False"

-----------------------------------------------------------------------------
(* C6 *)

\* C6: once is_landed is True at a position, it is True at every lower altitude
\* asked about at that position.
C6_LandedMonotoneInAltitude ==
    [][(/\ pc = "answered" /\ landed = "True"
        /\ balloon_alt' < balloon_alt
        /\ balloon_lon' = balloon_lon /\ balloon_lat' = balloon_lat
        /\ ground' = ground)
       => landed' = "True"]_vars

\* landed at one altitude, asked again at a lower one
C6_Witness ==
    /\ pc = "answered"
    /\ Len(track_alt) = 2
    /\ track_alt[2] < track_alt[1]
    /\ is_landed(ground, balloon_lon, balloon_lat, track_alt[1]) = "True"
    /\ landed = "True"

-----------------------------------------------------------------------------
(* C7 *)

\* the levels at the target altitude
LevelsAtTarget == {i \in DOMAIN sounding : sounding[i].alt = balloon_alt}

\* C7 as stated: sampling at the altitude of a level L selects L.
C7_EveryLevelAtTargetSelected ==
    pc = "answered" => \A L \in LevelsAtTarget : L \in selection

\* C7 amended: sampling at the altitude of a level L selects L exactly when
\* fewer than k levels of that altitude come before L in input order; so the
\* first level at the target altitude is always selected.
C7_FirstKLevelsAtTargetSelected ==
    pc = "answered"
    => \A L \in LevelsAtTarget :
          L \in selection
          <=> Cardinality({j \in LevelsAtTarget : j < L}) < KNearest(prog)

\* more levels at the target altitude than k, the later ones left out
C7_Witness ==
    /\ pc = "answered"
    /\ LevelsAtTarget # {}
    /\ Cardinality(LevelsAtTarget) > KNearest(prog)
    /\ Cardinality(selection) = KNearest(prog)
    /\ \E L \in LevelsAtTarget : L \notin selection

-----------------------------------------------------------------------------
(* C8 *)

\* a pass of the descent loop was made (it always assigns the bracketing or the
\* position lists)
DescentPass == pc = "descent" /\ vars' # vars

\* C8: in every descent step with zero wind and a constant fall rate f > 0, the
\* new Track entry is interval lower than the previous state, over the same
\* point, and its elapsed time is interval / f more than the previous entry's.
C8_DescentStepZeroWind ==
    [][(DescentPass /\ ZeroWind /\ sounding # <<>> /\ ConstantFall(FallOfProfile))
       => /\ Len(track_alt') = Len(track_alt) + 1
          /\ Last(track_alt') = balloon_alt - interval
          /\ Last(track_lon') = balloon_lon
          /\ Last(track_lat') = balloon_lat
          /\ track_t # <<>>
          /\ Len(track_t') = Len(track_t) + 1
          /\ Last(track_t') = Last(track_t) + StepTime(interval, FallOfProfile)]_vars

-----------------------------------------------------------------------------
(* C9 *)

\* the fall rate a descent step samples at the balloon's altitude
SampledFallRate ==
    Mean(Column(sounding, "fall_rate"),
         IF prog = "tracker" THEN Below(sounding, balloon_alt, KBracket(prog))
         ELSE Nearest(sounding, balloon_alt, KNearest(prog)))

\* C9: a descent step whose sampled fall rate is zero or negative is not applied:
\* nothing is appended to the Track and the run ends in an error.
C9_NonPhysicalFallRateRejected ==
    [][(DescentPass /\ SampledFallRate # NaN /\ SampledFallRate <= 0)
       => /\ track_alt' = track_alt /\ track_lon' = track_lon
          /\ track_lat' = track_lat /\ track_t' = track_t
          /\ pc' = "raised"]_vars

-----------------------------------------------------------------------------
(* C10 *)

\* C10: in the tracker script, a step with no level strictly below the balloon,
\* or none at or above it, still ends in a finite state, and the run goes on.
C10_TrackerStepWithoutBracket ==
    [][(/\ DescentPass
        /\ prog = "tracker"
        /\ balloon_alt # NaN
        /\ \/ Below(sounding, balloon_alt, KBracket(prog)) = {}
           \/ AtOrAbove(sounding, balloon_alt, KBracket(prog)) = {})
       => /\ balloon_lon' # NaN /\ balloon_lat' # NaN /\ balloon_alt' # NaN
          /\ Last(track_t') # NaN
          /\ pc' \in {"descent", "done"}]_vars

-----------------------------------------------------------------------------
(* C11 *)

\* a pass of the ascent loop
AscentPass == pc = "ascent" /\ counter <= time_to_cutdown /\ vars' # vars

\* the sounding script is about to bridge a gap: GPS columns, the nearest level
\* more than 100 m away, and levels both strictly below and strictly above
BridgeCase ==
    /\ prog = "sounding"
    /\ gps_available = "yes"
    /\ GapExceeds(sounding, balloon_alt)
    /\ Below(sounding, balloon_alt, KBracket(prog)) # {}
    /\ Above(sounding, balloon_alt, KBracket(prog)) # {}

\* the bracketing velocity (mm/s): the local-plane displacement between the
\* levels below and the levels above, divided by their time difference
BracketVelocity ==
    LET n1 == Below(sounding, balloon_alt, KBracket(prog))
        n2 == Above(sounding, balloon_alt, KBracket(prog))
        mv == Movement(sounding, tanp, n1, n2)
        tg == TimeGap(sounding, n1, n2)
    IN  [x |-> FDiv(mv.x, tg), y |-> FDiv(mv.y, tg)]

\* C11: in the sounding script with GPS, when a gap is bridged the horizontal
\* displacement of the step is the step's duration (interval in ascent,
\* interval / fall rate in descent) times the bracketing velocity.
C11_GapBridgeDisplacement ==
    [][/\ (BridgeCase /\ AscentPass)
          => /\ delta_x' = FMul(interval, BracketVelocity.x)
             /\ delta_y' = FMul(interval, BracketVelocity.y)
       /\ (BridgeCase /\ DescentPass)
          => /\ delta_x' = Advect(interval, SampledFallRate, BracketVelocity.x)
             /\ delta_y' = Advect(interval, SampledFallRate, BracketVelocity.y)]_vars

-----------------------------------------------------------------------------
(* C12 *)

\* the tracker script has a level strictly below the balloon and one at or above
TrackerBracket ==
    /\ prog = "tracker"
    /\ Below(sounding, balloon_alt, KBracket(prog)) # {}
    /\ AtOrAbove(sounding, balloon_alt, KBracket(prog)) # {}

\* t_above - t_below in seconds, signed
SignedTimeGap ==
    TimeGap(sounding, Below(sounding, balloon_alt, KBracket(prog)),
            AtOrAbove(sounding, balloon_alt, KBracket(prog)))

\* (interval / fall_rate) * displacement between the two levels / (t_above - t_below)
SignedGapDisplacement ==
    LET n1 == Below(sounding, balloon_alt, KBracket(prog))
        n2 == AtOrAbove(sounding, balloon_alt, KBracket(prog))
        mv == Movement(sounding, tanp, n1, n2)
        dt == StepTime(interval, SampledFallRate)
    IN  [x |-> FDiv(FMul(dt, mv.x), FMul(1000, SignedTimeGap)),
         y |-> FDiv(FMul(dt, mv.y), FMul(1000, SignedTimeGap))]

\* C12: every step of the tracker script moves the balloon horizontally by
\* (interval / fall_rate) times the displacement from the level below to the
\* level at or above, divided by the signed time difference of the two levels.
C12_TrackerSignedTimeDivisor ==
    [][(DescentPass /\ TrackerBracket)
       => /\ delta_x' = SignedGapDisplacement.x
          /\ delta_y' = SignedGapDisplacement.y]_vars

\* the same, for steps between levels observed less than a day apart with the
\* upper one observed later
C12_LaterWithinADay ==
    [][(DescentPass /\ TrackerBracket
        /\ SignedTimeGap # NaN /\ SignedTimeGap > 0 /\ SignedTimeGap < SecondsPerDay)
       => /\ delta_x' = SignedGapDisplacement.x
          /\ delta_y' = SignedGapDisplacement.y]_vars

-----------------------------------------------------------------------------
(* C13 *)

\* the levels whose fall rate gives the elapsed time of a descent step
FallRateLevels ==
    IF prog = "tracker" THEN Below(sounding, balloon_alt, KBracket(prog))
    ELSE Nearest(sounding, balloon_alt, KNearest(prog))

\* the levels that give the horizontal displacement of a descent step
WindLevels ==
    CASE prog = "tracker" ->
             Below(sounding, balloon_alt, KBracket(prog))
                \cup AtOrAbove(sounding, balloon_alt, KBracket(prog))
      [] prog # "tracker" /\ BridgeCase ->
             Below(sounding, balloon_alt, KBracket(prog))
                \cup Above(sounding, balloon_alt, KBracket(prog))
      [] OTHER -> Nearest(sounding, balloon_alt, KNearest(prog))

\* C13: in every descent step the fall rate behind the elapsed time is averaged
\* over the same levels as the step's horizontal wind or velocity, also when
\* bracketing supplies the velocity.
C13_FallRateFromWindLevels ==
    [][DescentPass => FallRateLevels = WindLevels]_vars

\* the same, for the steps whose wind comes from the k nearest levels
C13_SameLevelsWithoutBracketing ==
    [][(DescentPass /\ prog # "tracker" /\ ~BridgeCase)
       => /\ FallRateLevels = WindLevels
          /\ selection' = FallRateLevels]_vars

-----------------------------------------------------------------------------
(* C14 *)

\* is_landed of the i-th Track entry (a comparison with nan is False)
EntryLanded(i) ==
    IF track_lon[i] = NaN \/ track_lat[i] = NaN \/ track_alt[i] = NaN
    THEN "False"
    ELSE is_landed(ground, track_lon[i], track_lat[i], track_alt[i])

\* the Track entries made by the descent loop
DescentEntries == (AscentSteps + 1)..Len(track_alt)

\* C14: the landed test is made on the new state after every descent step and
\* the loop stops at the first landed one: in a finished Track the last entry
\* is landed and no earlier descent entry is, and while the loop runs no
\* descent entry is landed.  Ascent entries and the state the descent starts
\* from are not tested.
C14_DescentStopsAtFirstLanding ==
    /\ pc = "done"
       => /\ DescentSteps >= 1
          /\ landed = "True"
          /\ EntryLanded(Len(track_alt)) = "True"
          /\ \A i \in DescentEntries : i < Len(track_alt) => EntryLanded(i) = "False"
    /\ (pc = "descent" /\ track_t # <<>>)
       => /\ landed = "False"
          /\ \A i \in DescentEntries : EntryLanded(i) = "False"

\* a finished Track of several descent steps, whose first ascent entry lies
\* below the terrain and was never tested
C14_Witness ==
    /\ pc = "done"
    /\ DescentSteps >= 3
    /\ AscentSteps >= 1
    /\ EntryLanded(1) = "True"

=============================================================================
